---- MODULE Spec2Model ----
(***************************************************************************)
(* A model of homework.py: a bot that polls the Practicum homework-status  *)
(* API every RETRY_PERIOD seconds and relays each returned submission's    *)
(* status to one Telegram chat.                                            *)
(*                                                                         *)
(* The HTTP transport (requests.get), the Telegram transport               *)
(* (bot.send_message, telegram.Bot) and the clock (time.time) are the      *)
(* environment: every outcome they can produce is a nondeterministic       *)
(* choice.  Cyrillic string literals of the source are transliterated,     *)
(* since the module is ASCII.                                              *)
(***************************************************************************)
EXTENDS Integers, Sequences, FiniteSets, TLC

\* ------------------------------------------------------------ bounds
\* Longest 'homeworks' list the API returns in the model.
MaxHomeworks == 2
\* Number of polling cycles the model starts.
MaxCycles == 2

\* ------------------------------------------------------------ constants
RETRY_PERIOD == 600

\* HTTPStatus.OK
HTTP_OK == 200

\* Python's None; also the "no exception" mark of a result.
None == "<None>"

\* A local variable that has not been assigned yet (timestamp).
Unbound == -1

HOMEWORK_VERDICTS ==
    [approved  |-> "Rabota proverena: revyueru vsyo ponravilos. Ura!",
     reviewing |-> "Rabota vzyata na proverku revyuerom.",
     rejected  |-> "Rabota proverena: u revyuera est zamechaniya."]

\* ------------------------------------------------------------ values
\* time.time() is a float; the clock of the model counts ticks of
\* 1/TicksPerSecond second, and int() drops the fraction of a second.
TicksPerSecond == 2

\* The time (ticks) the request of one cycle can take: half a second or
\* one second.
RequestDurations == {1, 2}

\* What os.getenv can give for a secret: absent, set but empty, set.
SecretValues == {None, "", "token"}

\* The names check_tokens looks up in globals().
TokenNames == {"PRACTICUM_TOKEN", "TELEGRAM_TOKEN", "TELEGRAM_CHAT_ID"}

\* A JSON value standing where a submission is expected: a dict with some
\* of the keys, or a value that is no dict at all.
EmptyDict == [k \in {} |-> ""]

Dict(fields) == [type |-> "dict", fields |-> fields]

NonDict(t) == [type |-> t, fields |-> EmptyDict]

\* The elements of a 'homeworks' list in the model: two records with a known
\* status, one with an unknown status, one without 'homework_name', and one
\* element that is no dict.
HomeworkValues ==
    { Dict([homework_name |-> "hw1", status |-> "approved"]),
      Dict([homework_name |-> "hw2", status |-> "rejected"]),
      Dict([homework_name |-> "hw3", status |-> "bogus"]),
      Dict([status |-> "reviewing"]),
      NonDict("str") }

\* Submission records of every shape parse_status tells apart: each of the
\* two keys absent or present, the name empty or not, the status one of the
\* three known codes, an unknown code or empty.
SubmissionRecords ==
    LET names == {"hw1", "hw2", "hw3", ""}
        statuses == {"approved", "reviewing", "rejected", "bogus", ""}
    IN  {Dict(EmptyDict)}
        \cup {Dict([homework_name |-> n]) : n \in names}
        \cup {Dict([status |-> st]) : st \in statuses}
        \cup {Dict([homework_name |-> n, status |-> st]) : n \in names, st \in statuses}

RECURSIVE SeqsUpTo(_, _)
SeqsUpTo(S, n) ==
    IF n = 0 THEN {<<>>}
    ELSE LET shorter == SeqsUpTo(S, n - 1)
         IN  shorter \cup {Append(s, x) : s \in {t \in shorter : Len(t) = n - 1}, x \in S}

\* A parsed JSON body.  type is the Python type of the body; for a dict,
\* keys are the keys it holds among the two the bot reads, homeworks_type
\* is the type of the value under 'homeworks' and homeworks is that value
\* when it is a list.
Payload(t, keys, cd, ht, hws) ==
    [type |-> t, keys |-> keys, current_date |-> cd,
     homeworks_type |-> ht, homeworks |-> hws]

\* The local 'responce' before its first assignment.
NoResponce == Payload("unbound", {}, 0, None, <<>>)

\* The bodies the API returns in the model: values that are no dict, dicts
\* lacking a key, dicts whose 'homeworks' is no list, and dicts with both
\* keys and a list of up to MaxHomeworks submissions.
Payloads(cd) ==
    { Payload(t, {}, 0, None, <<>>) : t \in {"list", "NoneType"} }
    \cup { Payload("dict", keys, cd, None, <<>>) : keys \in SUBSET {"current_date"} }
    \cup { Payload("dict", keys \cup {"homeworks"}, cd, ht, <<>>) :
             keys \in SUBSET {"current_date"}, ht \in {"dict", "str"} }
    \cup { Payload("dict", {"homeworks"}, cd, "list", hws) :
             hws \in SeqsUpTo(HomeworkValues, 1) }
    \cup { Payload("dict", {"current_date", "homeworks"}, cd, "list", hws) :
             hws \in SeqsUpTo(HomeworkValues, MaxHomeworks) }

\* What requests.get can do: raise, or complete with a status code and a
\* body that parses as JSON or does not.
HttpResponse(raised, code, is_json, body) ==
    [raised |-> raised, status_code |-> code, is_json |-> is_json, body |-> body]

\* Before the first request.
NoHttp == HttpResponse(FALSE, 0, FALSE, NoResponce)

HttpOutcomes(cd) ==
    { HttpResponse(TRUE, 0, FALSE, NoResponce) }
    \cup { HttpResponse(FALSE, code, FALSE, NoResponce) : code \in {201, 404} }
    \cup { HttpResponse(FALSE, HTTP_OK, FALSE, NoResponce) }
    \cup { HttpResponse(FALSE, HTTP_OK, TRUE, body) : body \in Payloads(cd) }

\* The outcome of a call: the exception it raised (None if it returned),
\* the exception's message, and the value it returned.
Raise(exc, msg, dflt) == [exc |-> exc, msg |-> msg, value |-> dflt]

Return(v) == [exc |-> None, msg |-> "", value |-> v]

\* ------------------------------------------------------------ state
VARIABLES
    PRACTICUM_TOKEN,    \* os.getenv('PRACTICUM_TOKEN')
    TELEGRAM_TOKEN,     \* os.getenv('TOKEN')
    TELEGRAM_CHAT_ID,   \* os.getenv('CHAT_ID')
    pc,                 \* the statement main is about to execute
    exit,               \* why the process ended (None while it runs)
    bot,                \* main's local 'bot' (None before telegram.Bot returns)
    now,                \* the clock time.time(), in ticks
    timestamp,          \* main's local 'timestamp'
    from_date,          \* the from_date parameter of the last request sent
    http,               \* what requests.get did in the request of line 206,
                        \* kept until the next statement has run
    responce,           \* main's local 'responce'
    i,                  \* position of the for loop in responce['homeworks']
    text,               \* the parse_status result handed to send_message
    exc,                \* the exception propagating in the try block
    exc_msg,            \* the message that exception was raised with
    caught,             \* since the last request: the exception the except
                        \* clause logged
    validated,          \* since the last request: check_response returned
    interpreted,        \* since the last request: positions of the list
                        \* parse_status was called for
    attempts,           \* since the last request: calls of bot.send_message
    cycle,              \* cycles started
    fetches,            \* requests.get calls made
    sleeps,             \* time.sleep calls completed
    slept,              \* the argument of the last time.sleep
    tokens_checked,     \* calls of check_tokens made
    bots_created,       \* telegram.Bot objects created
    prev_timestamp,     \* the timestamp of the cycle before the current one
    busy                \* the time (ticks) the last request took, which is
                        \* the time between the timestamp and the sleep

vars == <<PRACTICUM_TOKEN, TELEGRAM_TOKEN, TELEGRAM_CHAT_ID, pc, exit, bot, now,
          timestamp, from_date, http, responce, i, text, exc, caught,
          validated, interpreted, attempts, cycle, fetches, sleeps, slept,
          exc_msg, tokens_checked, bots_created, prev_timestamp, busy>>

secrets == <<PRACTICUM_TOKEN, TELEGRAM_TOKEN, TELEGRAM_CHAT_ID>>

\* The module globals check_tokens reads by name.
Globals ==
    [PRACTICUM_TOKEN  |-> PRACTICUM_TOKEN,
     TELEGRAM_TOKEN   |-> TELEGRAM_TOKEN,
     TELEGRAM_CHAT_ID |-> TELEGRAM_CHAT_ID]

\* ------------------------------------------------------------ functions
\* The list of missing names, had it looked at the API token only.
missing_practicum_only(g) == {token \in {"PRACTICUM_TOKEN"} : g[token] = None}

\* check_tokens: the names whose global is None.
missing(g) == {token \in TokenNames : g[token] = None}

check_tokens(g) ==
    IF missing(g) # {}
    THEN Raise("SystemExit", "Otsutstvie obyazatelnyh peremennyh okruzheniya", None)
    ELSE Return(None)

\* telegram.Bot(token=...): the library rejects an empty token; any other
\* token it may accept or reject (InvalidToken).
BotAccepts(token) == IF token = "" THEN {FALSE} ELSE BOOLEAN

get_api_answer(answer) ==
    IF answer.raised
    THEN Raise("ProblemsWithEndpoint", "Problemy s dostupom k Endpointu", NoResponce)
    ELSE IF answer.status_code = HTTP_OK
         THEN IF answer.is_json
              THEN Return(answer.body)
              ELSE Raise("JSONDecodeError", "", NoResponce)
         ELSE Raise("EndpointDoesNotReturn200", "Nedostupnost endpointa", NoResponce)

\* check_response, had it accepted whatever it is given.
check_response_any(response) == Return(response)

\* check_response, had it not looked for 'current_date'.
check_response_no_date(response) ==
    IF /\ response.type = "dict"
       /\ "homeworks" \in response.keys
       /\ response.homeworks_type = "list"
    THEN Return(response)
    ELSE Raise("TypeError", "", NoResponce)

check_response(response) ==
    IF /\ response.type = "dict"
       /\ \A key \in {"current_date", "homeworks"} : key \in response.keys
       /\ response.homeworks_type = "list"
    THEN Return(response)
    ELSE Raise("TypeError", "", NoResponce)

StatusMessage(homework_name, verdict) ==
    "Izmenilsya status proverki raboty \"" \o homework_name \o "\". " \o verdict

\* parse_status, had it raised one and the same KeyError for both failures.
parse_status_one_error(homework) ==
    IF homework.type # "dict"
    THEN Raise("TypeError", "", "")
    ELSE IF /\ {"homework_name", "status"} \subseteq DOMAIN homework.fields
            /\ homework.fields.status \in DOMAIN HOMEWORK_VERDICTS
         THEN Return(StatusMessage(homework.fields.homework_name,
                                   HOMEWORK_VERDICTS[homework.fields.status]))
         ELSE Raise("KeyError", "Domashnyaya rabota ne obladaet nuzhnymi klyuchami", "")

parse_status(homework) ==
    IF homework.type # "dict"
    THEN Raise("TypeError", "", "")
    ELSE IF ~ ({"homework_name", "status"} \subseteq DOMAIN homework.fields)
         THEN Raise("KeyError", "Domashnyaya rabota ne obladaet nuzhnymi klyuchami", "")
         ELSE IF homework.fields.status \in DOMAIN HOMEWORK_VERDICTS
              THEN Return(StatusMessage(homework.fields.homework_name,
                                        HOMEWORK_VERDICTS[homework.fields.status]))
              ELSE Raise("KeyError",
                         "Status domashney raboty ne opredelyon iz ryada vozmozhnyh", "")

\* send_message, had it logged the transport's error without raising.
send_message_swallow(delivered) == Return(None)

\* send_message, given whether bot.send_message delivered or raised
\* telegram.TelegramError.
send_message(delivered) ==
    IF delivered
    THEN Return(None)
    ELSE Raise("CanNotSendMessage", "Oshibka pri otpravke soobshcheniya", None)

\* The except clause, had it named the two endpoint errors only.
CaughtOnlyEndpointErrors == {"ProblemsWithEndpoint", "EndpointDoesNotReturn200"}

\* What 'except Exception' catches: every exception raised in the loop is a
\* subclass of Exception; SystemExit is not.
CaughtByExceptException ==
    {"ProblemsWithEndpoint", "EndpointDoesNotReturn200", "CanNotSendMessage",
     "JSONDecodeError", "TypeError", "KeyError"}

\* ------------------------------------------------------------ main
Init ==
    /\ PRACTICUM_TOKEN \in SecretValues
    /\ TELEGRAM_TOKEN \in SecretValues
    /\ TELEGRAM_CHAT_ID \in SecretValues
    /\ pc = "check_tokens"
    /\ exit = None
    /\ bot = None
    /\ now = 0
    /\ timestamp = Unbound
    /\ from_date = Unbound
    /\ http = NoHttp
    /\ responce = NoResponce
    /\ i = 0
    /\ text = ""
    /\ exc = None
    /\ caught = None
    /\ validated = FALSE
    /\ interpreted = <<>>
    /\ attempts = <<>>
    /\ cycle = 0
    /\ fetches = 0
    /\ sleeps = 0
    /\ slept = 0
    /\ exc_msg = ""
    /\ tokens_checked = 0
    /\ bots_created = 0
    /\ prev_timestamp = Unbound
    /\ busy = 0

\* main, line 199: check_tokens(); sys.exit() ends the process.
CheckTokens ==
    /\ pc = "check_tokens"
    /\ LET r == check_tokens(Globals)
       IN  IF r.exc # None
           THEN pc' = "exited" /\ exit' = r.exc
           ELSE pc' = "bot_init" /\ exit' = exit
    /\ tokens_checked' = tokens_checked + 1
    /\ UNCHANGED <<secrets, bot, now, timestamp, from_date, http, responce, i,
                   text, exc, caught, validated, interpreted, attempts, cycle,
                   fetches, sleeps, slept,
                   exc_msg, bots_created, prev_timestamp, busy>>

\* main, lines 200-202: the bot is created outside any try block.
InitBot ==
    /\ pc = "bot_init"
    /\ \E accepted \in BotAccepts(TELEGRAM_TOKEN) :
         IF accepted
         THEN /\ bot' = "Bot"
              /\ bots_created' = bots_created + 1
              /\ pc' = "while"
              /\ exit' = exit
         ELSE /\ bot' = bot
              /\ bots_created' = bots_created
              /\ pc' = "exited"
              /\ exit' = "InvalidToken"
    /\ UNCHANGED <<secrets, now, timestamp, from_date, http, responce, i,
                   text, exc, caught, validated, interpreted, attempts, cycle,
                   fetches, sleeps, slept,
                   exc_msg, tokens_checked, prev_timestamp, busy>>

\* The top of the loop, had the timestamp been taken before the loop only.
TakeTimestampOnce ==
    /\ pc = "while"
    /\ cycle < MaxCycles
    /\ prev_timestamp' = timestamp
    /\ timestamp' = IF timestamp = Unbound THEN now \div TicksPerSecond ELSE timestamp
    /\ cycle' = cycle + 1
    /\ pc' = "get_api_answer"
    /\ UNCHANGED <<secrets, exit, bot, now, from_date, http, responce, i, text,
                   exc, caught, validated, interpreted, attempts, fetches,
                   sleeps, slept,
                   exc_msg, tokens_checked, bots_created, busy>>

\* main, lines 203-205: while True: try: timestamp = int(time.time()).
TakeTimestamp ==
    /\ pc = "while"
    /\ cycle < MaxCycles
    /\ prev_timestamp' = timestamp
    /\ timestamp' = now \div TicksPerSecond
    /\ cycle' = cycle + 1
    /\ pc' = "get_api_answer"
    /\ UNCHANGED <<secrets, exit, bot, now, from_date, http, responce, i, text,
                   exc, caught, validated, interpreted, attempts, fetches,
                   sleeps, slept,
                   exc_msg, tokens_checked, bots_created, busy>>

\* main, line 206: responce = check_response(get_api_answer(timestamp)).
\* One request is made; it takes one of RequestDurations ticks, and the
\* server stamps its answer with its clock in whole seconds.
GetResponce ==
    /\ pc = "get_api_answer"
    /\ \E d \in RequestDurations :
         /\ now' = now + d
         /\ busy' = d
         /\ \E answer \in HttpOutcomes((now + d) \div TicksPerSecond) :
              /\ http' = answer
              /\ LET fetched == get_api_answer(answer)
                     checked == check_response(fetched.value)
                 IN  IF fetched.exc # None
                     THEN /\ responce' = responce
                          /\ validated' = FALSE
                          /\ exc' = fetched.exc
                          /\ exc_msg' = fetched.msg
                          /\ pc' = "except"
                     ELSE IF checked.exc # None
                          THEN /\ responce' = responce
                               /\ validated' = FALSE
                               /\ exc' = checked.exc
                               /\ exc_msg' = checked.msg
                               /\ pc' = "except"
                          ELSE /\ responce' = checked.value
                               /\ validated' = TRUE
                               /\ exc' = exc
                               /\ exc_msg' = exc_msg
                               /\ pc' = "if_homeworks"
    /\ from_date' = timestamp - RETRY_PERIOD
    /\ fetches' = fetches + 1
    /\ i' = 0
    /\ caught' = None
    /\ interpreted' = <<>>
    /\ attempts' = <<>>
    /\ UNCHANGED <<secrets, exit, bot, timestamp, text, cycle, sleeps, slept,
                   tokens_checked, bots_created, prev_timestamp>>

\* The if branch, had the send of line 209 not been commented out.
IfHomeworksNotify ==
    /\ pc = "if_homeworks"
    /\ IF responce.homeworks = <<>>
       THEN /\ i' = i
            /\ attempts' = Append(attempts,
                                  [index |-> 0, text |-> "Otsutstvuyut novye otvety",
                                   bot |-> bot, delivered |-> TRUE])
            /\ pc' = "sleep"
       ELSE i' = 1 /\ attempts' = attempts /\ pc' = "parse_status"
    /\ http' = NoHttp
    /\ UNCHANGED <<secrets, exit, bot, now, timestamp, from_date, responce, text,
                   exc, caught, validated, interpreted, cycle, fetches,
                   sleeps, slept,
                   exc_msg, tokens_checked, bots_created, prev_timestamp, busy>>

\* main, lines 207-211: an empty list is only logged; otherwise the for loop
\* starts at the first submission.
IfHomeworks ==
    /\ pc = "if_homeworks"
    /\ IF responce.homeworks = <<>>
       THEN i' = i /\ pc' = "sleep"
       ELSE i' = 1 /\ pc' = "parse_status"
    /\ http' = NoHttp
    /\ UNCHANGED <<secrets, exit, bot, now, timestamp, from_date, responce, text,
                   exc, caught, validated, interpreted, attempts, cycle, fetches,
                   sleeps, slept,
                   exc_msg, tokens_checked, bots_created, prev_timestamp, busy>>

\* The for loop, had it skipped a submission that cannot be interpreted.
ParseStatusSkip ==
    /\ pc = "parse_status"
    /\ interpreted' = Append(interpreted, i)
    /\ LET r == parse_status(responce.homeworks[i])
       IN  IF r.exc = None
           THEN text' = r.value /\ i' = i /\ pc' = "send_message"
           ELSE /\ text' = text
                /\ IF i < Len(responce.homeworks)
                   THEN i' = i + 1 /\ pc' = "parse_status"
                   ELSE i' = i /\ pc' = "sleep"
    /\ UNCHANGED <<secrets, exit, bot, now, timestamp, from_date, http, responce,
                   exc, caught, validated, attempts, cycle, fetches, sleeps, slept,
                   exc_msg, tokens_checked, bots_created, prev_timestamp, busy>>

\* main, line 212 (inner call): parse_status(homework).
ParseStatus ==
    /\ pc = "parse_status"
    /\ interpreted' = Append(interpreted, i)
    /\ LET r == parse_status(responce.homeworks[i])
       IN  IF r.exc = None
           THEN text' = r.value /\ exc' = exc /\ exc_msg' = exc_msg /\ pc' = "send_message"
           ELSE text' = text /\ exc' = r.exc /\ exc_msg' = r.msg /\ pc' = "except"
    /\ UNCHANGED <<secrets, exit, bot, now, timestamp, from_date, http, responce,
                   i, caught, validated, attempts, cycle, fetches, sleeps, slept,
                   tokens_checked, bots_created, prev_timestamp, busy>>

\* The for loop, had it tried a failed send once more.
SendMessageRetry ==
    /\ pc = "send_message"
    /\ \E delivered \in BOOLEAN :
         /\ attempts' = Append(attempts,
                               [index |-> i, text |-> text, bot |-> bot,
                                delivered |-> delivered])
         /\ LET r == send_message(delivered)
            IN  IF r.exc = None
                THEN /\ exc' = exc
                     /\ exc_msg' = exc_msg
                     /\ text' = ""
                     /\ IF i < Len(responce.homeworks)
                        THEN i' = i + 1 /\ pc' = "parse_status"
                        ELSE i' = i /\ pc' = "sleep"
                ELSE IF attempts # <<>> /\ attempts[Len(attempts)].index = i
                     THEN /\ exc' = r.exc
                          /\ exc_msg' = r.msg
                          /\ text' = ""
                          /\ i' = i
                          /\ pc' = "except"
                     ELSE /\ exc' = exc
                          /\ exc_msg' = exc_msg
                          /\ text' = text
                          /\ i' = i
                          /\ pc' = "send_message"
    /\ UNCHANGED <<secrets, exit, bot, now, timestamp, from_date, http, responce,
                   caught, validated, interpreted, cycle, fetches, sleeps, slept,
                   tokens_checked, bots_created, prev_timestamp, busy>>

\* The for loop, had it carried on with the next submission after a send
\* that raised.
SendMessageContinues ==
    /\ pc = "send_message"
    /\ \E delivered \in BOOLEAN :
         attempts' = Append(attempts,
                            [index |-> i, text |-> text, bot |-> bot,
                             delivered |-> delivered])
    /\ IF i < Len(responce.homeworks)
       THEN i' = i + 1 /\ pc' = "parse_status"
       ELSE i' = i /\ pc' = "sleep"
    /\ text' = ""
    /\ UNCHANGED <<secrets, exit, bot, now, timestamp, from_date, http, responce,
                   exc, exc_msg, caught, validated, interpreted, cycle, fetches,
                   sleeps, slept,
                   tokens_checked, bots_created, prev_timestamp, busy>>

\* main, line 212 (outer call): send_message(bot, text), then the for loop
\* moves on or ends.
SendMessage ==
    /\ pc = "send_message"
    /\ \E delivered \in BOOLEAN :
         /\ attempts' = Append(attempts,
                               [index |-> i, text |-> text, bot |-> bot,
                                delivered |-> delivered])
         /\ LET r == send_message(delivered)
            IN  IF r.exc = None
                THEN /\ exc' = exc
                     /\ exc_msg' = exc_msg
                     /\ IF i < Len(responce.homeworks)
                        THEN i' = i + 1 /\ pc' = "parse_status"
                        ELSE i' = i /\ pc' = "sleep"
                ELSE exc' = r.exc /\ exc_msg' = r.msg /\ i' = i /\ pc' = "except"
    /\ text' = ""
    /\ UNCHANGED <<secrets, exit, bot, now, timestamp, from_date, http, responce,
                   caught, validated, interpreted, cycle, fetches, sleeps, slept,
                   tokens_checked, bots_created, prev_timestamp, busy>>

\* The except clause, had it sent the error text to the chat.
ExceptSendsError ==
    /\ pc = "except"
    /\ caught' = exc
    /\ pc' = "sleep"
    /\ attempts' = Append(attempts,
                          [index |-> i, text |-> exc_msg, bot |-> bot,
                           delivered |-> TRUE])
    /\ exc' = None
    /\ exc_msg' = ""
    /\ http' = NoHttp
    /\ UNCHANGED <<secrets, exit, bot, now, timestamp, from_date, responce, i,
                   text, validated, interpreted, cycle, fetches, sleeps, slept,
                   tokens_checked, bots_created, prev_timestamp, busy>>

\* The except clause, had it logged and raised again.
ExceptReraise ==
    /\ pc = "except"
    /\ caught' = exc
    /\ pc' = "exited"
    /\ exit' = exc
    /\ exc' = None
    /\ exc_msg' = ""
    /\ http' = NoHttp
    /\ UNCHANGED <<secrets, bot, now, timestamp, from_date, responce, i, text,
                   validated, interpreted, attempts, cycle, fetches, sleeps,
                   slept,
                   tokens_checked, bots_created, prev_timestamp, busy>>

\* The except clause, had the sleep stood in the try block and not in a
\* finally clause.
ExceptSkipsSleep ==
    /\ pc = "except"
    /\ caught' = exc
    /\ pc' = "while"
    /\ exc' = None
    /\ exc_msg' = ""
    /\ http' = NoHttp
    /\ UNCHANGED <<secrets, exit, bot, now, timestamp, from_date, responce, i,
                   text, validated, interpreted, attempts, cycle, fetches, sleeps,
                   slept,
                   tokens_checked, bots_created, prev_timestamp, busy>>

\* main, lines 213-214: except Exception: logging.exception(...).
Except ==
    /\ pc = "except"
    /\ IF exc \in CaughtByExceptException
       THEN caught' = exc /\ pc' = "sleep" /\ exit' = exit
       ELSE caught' = caught /\ pc' = "exited" /\ exit' = exc
    /\ exc' = None
    /\ exc_msg' = ""
    /\ http' = NoHttp
    /\ UNCHANGED <<secrets, bot, now, timestamp, from_date, responce, i, text,
                   validated, interpreted, attempts, cycle, fetches, sleeps,
                   slept,
                   tokens_checked, bots_created, prev_timestamp, busy>>

\* The finally clause, had it slept until RETRY_PERIOD after the cycle's
\* timestamp and not for RETRY_PERIOD.
SleepUntilNextPeriod ==
    /\ pc = "sleep"
    /\ now' = (timestamp + RETRY_PERIOD) * TicksPerSecond
    /\ slept' = RETRY_PERIOD - (now \div TicksPerSecond - timestamp)
    /\ sleeps' = sleeps + 1
    /\ pc' = "while"
    /\ UNCHANGED <<secrets, exit, bot, timestamp, from_date, http, responce, i,
                   text, exc, caught, validated, interpreted, attempts, cycle,
                   fetches,
                   exc_msg, tokens_checked, bots_created, prev_timestamp, busy>>

\* The finally clause, had the bot been created anew after every sleep.
SleepNewBot ==
    /\ pc = "sleep"
    /\ now' = now + RETRY_PERIOD * TicksPerSecond
    /\ slept' = RETRY_PERIOD
    /\ sleeps' = sleeps + 1
    /\ bots_created' = bots_created + 1
    /\ pc' = "while"
    /\ UNCHANGED <<secrets, exit, bot, timestamp, from_date, http, responce, i,
                   text, exc, caught, validated, interpreted, attempts, cycle,
                   fetches,
                   exc_msg, tokens_checked, prev_timestamp, busy>>

\* main, lines 215-216: finally: time.sleep(RETRY_PERIOD), then while True.
Sleep ==
    /\ pc = "sleep"
    /\ now' = now + RETRY_PERIOD * TicksPerSecond
    /\ slept' = RETRY_PERIOD
    /\ sleeps' = sleeps + 1
    /\ pc' = "while"
    /\ UNCHANGED <<secrets, exit, bot, timestamp, from_date, http, responce, i,
                   text, exc, caught, validated, interpreted, attempts, cycle,
                   fetches,
                   exc_msg, tokens_checked, bots_created, prev_timestamp, busy>>

Next ==
    \/ CheckTokens
    \/ InitBot
    \/ TakeTimestamp
    \/ GetResponce
    \/ IfHomeworks
    \/ ParseStatus
    \/ SendMessage
    \/ Except
    \/ Sleep

Spec == Init /\ [][Next]_vars

\* The for loop of main at one submission record of any shape: the state
\* after a first request that returned a list holding that record.
ParseInit ==
    /\ PRACTICUM_TOKEN = "token"
    /\ TELEGRAM_TOKEN = "token"
    /\ TELEGRAM_CHAT_ID = "token"
    /\ pc = "parse_status"
    /\ exit = None
    /\ bot = "Bot"
    /\ now = 0
    /\ timestamp = 0
    /\ from_date = 0 - RETRY_PERIOD
    /\ http = NoHttp
    /\ \E homework \in SubmissionRecords :
         responce = Payload("dict", {"current_date", "homeworks"}, 0, "list",
                            <<homework>>)
    /\ i = 1
    /\ text = ""
    /\ exc = None
    /\ caught = None
    /\ validated = TRUE
    /\ interpreted = <<>>
    /\ attempts = <<>>
    /\ cycle = 1
    /\ fetches = 1
    /\ sleeps = 0
    /\ slept = 0
    /\ exc_msg = ""
    /\ tokens_checked = 1
    /\ bots_created = 1
    /\ prev_timestamp = Unbound
    /\ busy = 0

ParseNext ==
    \/ ParseStatus
    \/ SendMessage
    \/ Except

ParseSpec == ParseInit /\ [][ParseNext]_vars

\* ------------------------------------------------------------ properties
\* The statements of one pass through the body of 'while True'.
InCycle ==
    pc \in {"get_api_answer", "if_homeworks", "parse_status", "send_message",
            "except", "sleep"}

\* A secret that os.getenv did not find.
SomeSecretAbsent ==
    \/ PRACTICUM_TOKEN = None
    \/ TELEGRAM_TOKEN = None
    \/ TELEGRAM_CHAT_ID = None

\* A secret that is absent or the empty string.
SomeSecretEmpty ==
    \/ PRACTICUM_TOKEN \in {None, ""}
    \/ TELEGRAM_TOKEN \in {None, ""}
    \/ TELEGRAM_CHAT_ID \in {None, ""}

\* The positions of the current batch whose record has both keys and a
\* status of the verdict table.
Interpretable ==
    { j \in 1..Len(responce.homeworks) :
        /\ responce.homeworks[j].type = "dict"
        /\ {"homework_name", "status"} \subseteq DOMAIN responce.homeworks[j].fields
        /\ responce.homeworks[j].fields.status \in {"approved", "reviewing", "rejected"} }

\* The positions a send was attempted for since the last request.
Attempted == { attempts[k].index : k \in 1..Len(attempts) }

\* The positions whose send raised since the last request.
FailedSends == { attempts[k].index : k \in {n \in 1..Len(attempts) : ~attempts[n].delivered} }

\* What one step of the loop may do: each statement hands over to the next
\* one of the cycle, the for loop only moves forward in the list, the except
\* clause always leads to the sleep, the sleep to the top of the loop, and
\* the top of the loop to a new request.
StepForward ==
    /\ pc = "while" => pc' = "get_api_answer" /\ cycle' = cycle + 1
    /\ pc = "get_api_answer" => pc' \in {"if_homeworks", "except"} /\ fetches' = fetches + 1
    /\ pc = "if_homeworks" => pc' \in {"parse_status", "sleep"}
    /\ pc = "parse_status" => pc' \in {"send_message", "except"}
    /\ pc = "send_message" =>
         \/ pc' \in {"except", "sleep"}
         \/ pc' = "parse_status" /\ i' = i + 1 /\ i' <= Len(responce.homeworks)
    /\ pc = "except" => pc' = "sleep" /\ caught' = exc
    /\ pc = "sleep" => pc' = "while" /\ sleeps' = sleeps + 1

\* C1: once the loop is entered it has no terminal state: the process never
\* exits, a step is always possible (up to the MaxCycles cycles the model
\* starts), and every step moves the cycle forward: whatever was raised is
\* caught by the except clause, which leads to the sleep, which leads to the
\* top of the loop and a new request.
C1_LoopHasNoTerminalState ==
    /\ [](bot # None =>
            /\ exit = None
            /\ pc # "exited"
            /\ ENABLED Next \/ (pc = "while" /\ cycle = MaxCycles))
    /\ [][StepForward]_vars

\* C1 witness: a second cycle is about to make its request after a first
\* cycle whose send failed and was caught.
C1_Witness ==
    /\ cycle = 2
    /\ pc = "get_api_answer"
    /\ sleeps = 1
    /\ caught = "CanNotSendMessage"

C3_ExactlyInterpretableAreSent ==
    (/\ pc = "sleep"
     /\ validated
     /\ Len(responce.homeworks) >= 2
     /\ \A j \in 1..Len(responce.homeworks) : responce.homeworks[j].type = "dict"
     /\ FailedSends = {}) => Attempted = Interpretable

\* The first position of the batch that cannot be interpreted (one past the
\* end when every position can).
FirstUninterpretable ==
    LET bad == (1..Len(responce.homeworks)) \ Interpretable
    IN  IF bad = {} THEN Len(responce.homeworks) + 1
        ELSE CHOOSE j \in bad : \A m \in bad : j <= m

\* C3 (amended): the first submission whose interpretation fails ends the
\* batch: in a cycle whose sends all succeed, exactly the submissions before
\* it get a send attempt, it is the last one interpreted, and its error
\* reaches the cycle's except clause.
C3_FirstBadSubmissionAbortsBatch ==
    (pc = "sleep" /\ validated /\ FailedSends = {}) =>
        /\ Attempted = 1..(FirstUninterpretable - 1)
        /\ Len(attempts) = FirstUninterpretable - 1
        /\ FirstUninterpretable <= Len(responce.homeworks) =>
             /\ interpreted = [j \in 1..FirstUninterpretable |-> j]
             /\ caught \in {"KeyError", "TypeError"}
        /\ FirstUninterpretable > Len(responce.homeworks) =>
             /\ interpreted = [j \in 1..Len(responce.homeworks) |-> j]
             /\ caught = None

\* C3 witness: a record with an unknown status followed by a valid record
\* yields no notification at all.
C3_Witness ==
    /\ pc = "sleep"
    /\ validated
    /\ Len(responce.homeworks) = 2
    /\ Interpretable = {2}
    /\ responce.homeworks[1].fields = [homework_name |-> "hw3", status |-> "bogus"]
    /\ attempts = <<>>
    /\ caught = "KeyError"

\* C4: with any of the three secrets absent, the process ends in
\* check_tokens: the bot is never created, no request is made, nothing is
\* sent and no cycle starts.
C4_AbsentSecretNoCycle ==
    SomeSecretAbsent =>
        /\ pc \in {"check_tokens", "exited"}
        /\ pc = "exited" => exit = "SystemExit"
        /\ bot = None
        /\ cycle = 0
        /\ fetches = 0
        /\ attempts = <<>>
        /\ http = NoHttp

\* C4 witness: the process has exited with two of the secrets absent.
C4_Witness ==
    /\ pc = "exited"
    /\ exit = "SystemExit"
    /\ PRACTICUM_TOKEN = "token"
    /\ TELEGRAM_TOKEN = None
    /\ TELEGRAM_CHAT_ID = None

\* C5: a submission is interpreted or sent only after the request of the
\* cycle returned and check_response accepted its payload; when either
\* raised, nothing is interpreted or sent until the sleep and the cycle is
\* in its except clause or its sleep.
C5_NothingProcessedUnlessValidated ==
    /\ (pc \in {"if_homeworks", "parse_status", "send_message"}
          \/ interpreted # <<>> \/ attempts # <<>>) =>
         /\ validated
         /\ fetches >= 1
         /\ responce.type = "dict"
         /\ {"current_date", "homeworks"} \subseteq responce.keys
         /\ responce.homeworks_type = "list"
    /\ pc \in {"if_homeworks", "parse_status", "send_message"} => fetches = cycle
    /\ (InCycle /\ fetches = cycle /\ ~validated) =>
         /\ pc \in {"except", "sleep"}
         /\ interpreted = <<>>
         /\ attempts = <<>>
         /\ i = 0

\* C5 witness: the payload of the second cycle was rejected by
\* check_response and the cycle is at its sleep; nothing was processed.
C5_Witness ==
    /\ cycle = 2
    /\ pc = "sleep"
    /\ ~validated
    /\ caught = "TypeError"
    /\ interpreted = <<>>
    /\ attempts = <<>>

\* C6: every cycle ends with exactly one sleep of RETRY_PERIOD seconds: at
\* the top of the loop as many sleeps as requests have been completed, in a
\* cycle one fewer, and the clock at the top of the loop is RETRY_PERIOD
\* seconds past the end of the cycle's request.
C6_OneSleepPerCycle ==
    /\ pc = "while" => sleeps = cycle /\ fetches = cycle
    /\ pc = "get_api_answer" => sleeps = cycle - 1 /\ fetches = cycle - 1
    /\ pc \in {"if_homeworks", "parse_status", "send_message", "except", "sleep"} =>
         sleeps = cycle - 1 /\ fetches = cycle
    /\ sleeps > 0 => slept = RETRY_PERIOD
    /\ (pc = "while" /\ cycle > 0) =>
         (now - busy) \div TicksPerSecond = timestamp + RETRY_PERIOD

\* C6 witness: the second cycle, whose request got a status other than 200,
\* has slept and is back at the top of the loop.
C6_Witness ==
    /\ pc = "while"
    /\ cycle = 2
    /\ sleeps = 2
    /\ slept = RETRY_PERIOD
    /\ caught = "EndpointDoesNotReturn200"

C8_EmptySecretNoCycle ==
    SomeSecretEmpty =>
        /\ cycle = 0
        /\ fetches = 0
        /\ attempts = <<>>

\* The payload the last request returned, when it completed with status
\* 200 and a body that parses.
Returned200 == ~http.raised /\ http.status_code = HTTP_OK /\ http.is_json

\* C9: check_response raises TypeError for a payload that is no dict, lacks
\* 'homeworks' or 'current_date', or whose 'homeworks' is no list, and
\* otherwise returns the payload as it is.
C9_CheckResponseContract ==
    (Returned200 /\ pc \in {"except", "if_homeworks"}) =>
        IF \/ http.body.type # "dict"
           \/ "homeworks" \notin http.body.keys
           \/ "current_date" \notin http.body.keys
           \/ http.body.homeworks_type # "list"
        THEN pc = "except" /\ exc = "TypeError" /\ ~validated
        ELSE pc = "if_homeworks" /\ exc = None /\ validated /\ responce = http.body

\* C9 witness: a dict with a list under 'homeworks' and no 'current_date'
\* was rejected with TypeError.
C9_Witness ==
    /\ Returned200
    /\ pc = "except"
    /\ exc = "TypeError"
    /\ http.body.type = "dict"
    /\ http.body.keys = {"homeworks"}
    /\ http.body.homeworks_type = "list"
    /\ Len(http.body.homeworks) = 1

\* C10 (as claimed): get_api_answer raises ProblemsWithEndpoint when the
\* transport raised, EndpointDoesNotReturn200 when the status is not 200,
\* and returns the parsed body when it is 200; no other exception leaves it
\* (a TypeError at this statement is check_response's, raised on the body
\* get_api_answer returned).
C10_OnlyTypedFetchErrors ==
    (http # NoHttp /\ pc \in {"except", "if_homeworks"}) =>
        /\ http.raised => exc = "ProblemsWithEndpoint"
        /\ (~http.raised /\ http.status_code # HTTP_OK) => exc = "EndpointDoesNotReturn200"
        /\ (~http.raised /\ http.status_code = HTTP_OK) =>
             \/ pc = "if_homeworks" /\ exc = None /\ responce = http.body
             \/ pc = "except" /\ exc = "TypeError" /\ http.is_json

\* The submission record the for loop stands at.
Homework == responce.homeworks[i]

\* parse_status has been called for the record and its outcome has not been
\* consumed yet.
JustParsed ==
    /\ interpreted # <<>>
    /\ interpreted[Len(interpreted)] = i
    /\ Len(attempts) < Len(interpreted)
    /\ pc \in {"send_message", "except"}

\* C11: for every submission record, parse_status raises the KeyError of an
\* incomplete record when 'homework_name' or 'status' is missing, raises a
\* KeyError with another message when both are there and the status is none
\* of approved, reviewing, rejected, and otherwise returns the template
\* filled with the record's name and the verdict phrase of its status.
C11_ParseStatusContract ==
    (JustParsed /\ Homework.type = "dict") =>
        IF ~ ({"homework_name", "status"} \subseteq DOMAIN Homework.fields)
        THEN /\ pc = "except"
             /\ exc = "KeyError"
             /\ exc_msg = "Domashnyaya rabota ne obladaet nuzhnymi klyuchami"
        ELSE IF Homework.fields.status \notin {"approved", "reviewing", "rejected"}
             THEN /\ pc = "except"
                  /\ exc = "KeyError"
                  /\ exc_msg = "Status domashney raboty ne opredelyon iz ryada vozmozhnyh"
                  /\ exc_msg # "Domashnyaya rabota ne obladaet nuzhnymi klyuchami"
             ELSE /\ pc = "send_message"
                  /\ exc = None
                  /\ text = "Izmenilsya status proverki raboty \""
                            \o Homework.fields.homework_name \o "\". "
                            \o (CASE Homework.fields.status = "approved" ->
                                       "Rabota proverena: revyueru vsyo ponravilos. Ura!"
                                  [] Homework.fields.status = "reviewing" ->
                                       "Rabota vzyata na proverku revyuerom."
                                  [] Homework.fields.status = "rejected" ->
                                       "Rabota proverena: u revyuera est zamechaniya.")

\* C11 witness: a record with both keys and the status 'bogus' was refused
\* with the unknown-status KeyError.
C11_Witness ==
    /\ JustParsed
    /\ Homework.fields = [homework_name |-> "hw2", status |-> "bogus"]
    /\ exc = "KeyError"
    /\ exc_msg = "Status domashney raboty ne opredelyon iz ryada vozmozhnyh"

\* C12: a cycle whose validated response holds an empty 'homeworks' list
\* attempts no send, interprets nothing, raises nothing and goes from the
\* if statement straight to the sleep of RETRY_PERIOD seconds.
C12_EmptyBatchIsQuiet ==
    (validated /\ responce.homeworks = <<>>) =>
        /\ attempts = <<>>
        /\ interpreted = <<>>
        /\ exc = None
        /\ caught = None
        /\ exit = None
        /\ pc \in {"if_homeworks", "sleep", "while", "get_api_answer"}
        /\ (pc = "while" => sleeps = cycle /\ slept = 600)

\* C12 witness: the first cycle got an empty list and has slept.
C12_Witness ==
    /\ validated
    /\ responce.homeworks = <<>>
    /\ pc = "while"
    /\ cycle = 1
    /\ sleeps = 1
    /\ attempts = <<>>

\* C13: one request per cycle, and since that request the send attempts are
\* for strictly increasing list positions (so at most one per submission,
\* in list order) and a send that raised is the last attempt of the cycle.
C13_AtMostOnceInOrder ==
    /\ fetches = IF pc = "get_api_answer" THEN cycle - 1 ELSE cycle
    /\ \A k \in 1..Len(attempts) : \A l \in 1..Len(attempts) :
         k < l => attempts[k].index < attempts[l].index
    /\ \A k \in 1..Len(attempts) :
         ~attempts[k].delivered => k = Len(attempts)
    /\ (pc = "except" => fetches = cycle)

\* C13 witness: two sends were attempted in one cycle, the second raised and
\* the cycle went on to the sleep after one request.
C13_Witness ==
    /\ Len(attempts) = 2
    /\ attempts[1].delivered
    /\ ~attempts[2].delivered
    /\ pc = "sleep"
    /\ fetches = cycle

\* The text parse_status returns for a record with both keys and a known
\* status.
Notification(homework) ==
    "Izmenilsya status proverki raboty \"" \o homework.fields.homework_name
    \o "\". "
    \o (CASE homework.fields.status = "approved" ->
               "Rabota proverena: revyueru vsyo ponravilos. Ura!"
          [] homework.fields.status = "reviewing" ->
               "Rabota vzyata na proverku revyuerom."
          [] homework.fields.status = "rejected" ->
               "Rabota proverena: u revyuera est zamechaniya.")

\* C14: every message handed to the bot since the last request is the
\* parse_status text of a submission of the response fetched and validated
\* in the current cycle; nothing is sent for a record that cannot be
\* interpreted, for an empty list, after a failed request or validation, or
\* with the text of an error.
C14_OnlyStatusMessagesAreSent ==
    /\ \A k \in 1..Len(attempts) :
         /\ validated
         /\ (pc # "get_api_answer" =>
               /\ fetches = cycle
               /\ responce.current_date - timestamp \in {0, 1})
         /\ attempts[k].index \in 1..Len(responce.homeworks)
         /\ LET homework == responce.homeworks[attempts[k].index]
            IN  /\ homework.type = "dict"
                /\ {"homework_name", "status"} \subseteq DOMAIN homework.fields
                /\ homework.fields.status \in {"approved", "reviewing", "rejected"}
                /\ attempts[k].text = Notification(homework)
    /\ (~validated => attempts = <<>>)
    /\ (pc = "send_message" => text = Notification(responce.homeworks[i]))

\* C14 witness: the first record was sent, the second could not be
\* interpreted, the error was caught and no further message went out.
C14_Witness ==
    /\ Len(attempts) = 1
    /\ attempts[1].index = 1
    /\ attempts[1].text = "Izmenilsya status proverki raboty \"hw1\". Rabota proverena: revyueru vsyo ponravilos. Ura!"
    /\ interpreted = <<1, 2>>
    /\ caught = "KeyError"
    /\ pc = "sleep"

\* C15: the timestamp is the clock at the start of the cycle, the request
\* asks for from_date = timestamp - RETRY_PERIOD, and the response processed
\* in a cycle is the one that cycle's request returned.
C15_WindowFromFreshTimestamp ==
    /\ (pc = "get_api_answer" => timestamp = now \div TicksPerSecond)
    /\ (InCycle /\ pc # "get_api_answer" =>
          /\ from_date = timestamp - 600
          /\ now \div TicksPerSecond - timestamp \in {0, 1})
    /\ (pc \in {"if_homeworks", "parse_status", "send_message"} =>
          /\ validated
          /\ responce.current_date = now \div TicksPerSecond
          /\ fetches = cycle)
    /\ (InCycle /\ prev_timestamp # -1 => timestamp > prev_timestamp)

\* C15 witness: the second cycle asked for the window ending at its own
\* timestamp and processes the response to that request.
C15_Witness ==
    /\ cycle = 2
    /\ pc = "parse_status"
    /\ timestamp = 601
    /\ from_date = 1
    /\ responce.current_date = 602

\* C16: check_tokens runs once, then the bot is created once, both before
\* the first cycle; every send uses that bot; no step after the start
\* writes a secret.
C16_StartupOnce ==
    /\ [](/\ tokens_checked <= 1
          /\ bots_created <= 1
          /\ (pc = "check_tokens" <=> tokens_checked = 0)
          /\ (bots_created = 1 => tokens_checked = 1)
          /\ (bot # None <=> bots_created = 1)
          /\ (cycle >= 1 => tokens_checked = 1 /\ bots_created = 1)
          /\ \A k \in 1..Len(attempts) :
               attempts[k].bot # None /\ attempts[k].bot = bot)
    /\ [][/\ PRACTICUM_TOKEN' = PRACTICUM_TOKEN
          /\ TELEGRAM_TOKEN' = TELEGRAM_TOKEN
          /\ TELEGRAM_CHAT_ID' = TELEGRAM_CHAT_ID
          /\ (bot # None => bot' = bot)]_vars

\* C16 witness: in the second cycle a send was attempted with the bot
\* created at the start.
C16_Witness ==
    /\ cycle = 2
    /\ attempts # <<>>
    /\ attempts[1].bot = "Bot"
    /\ tokens_checked = 1
    /\ bots_created = 1

\* C17: the submissions handled since the last request are a prefix of the
\* list; every one before the last handled was interpreted and delivered;
\* after an error of the for loop was caught nothing of the list follows.
C17_AttemptedIsAPrefix ==
    /\ interpreted = [k \in 1..Len(interpreted) |-> k]
    /\ \A k \in 1..Len(attempts) : attempts[k].index = k
    /\ Len(interpreted) - Len(attempts) \in {0, 1}
    /\ \A k \in 1..(Len(interpreted) - 1) :
         /\ k \in Interpretable
         /\ k <= Len(attempts)
         /\ attempts[k].delivered
    /\ (interpreted # <<>> =>
          /\ validated
          /\ Len(interpreted) <= Len(responce.homeworks)
          /\ i - Len(interpreted) \in {0, 1})
    /\ (Len(interpreted) > Len(attempts) /\ pc # "send_message" =>
          Len(interpreted) \notin Interpretable)

\* C17 witness: of two records the first one's send raised; the second was
\* neither interpreted nor sent.
C17_Witness ==
    /\ Len(responce.homeworks) = 2
    /\ Interpretable = {1, 2}
    /\ interpreted = <<1>>
    /\ Len(attempts) = 1
    /\ ~attempts[1].delivered
    /\ caught = "CanNotSendMessage"
    /\ pc = "while"

\* C18 (as claimed): at the start of every cycle after the first, the
\* window [timestamp - RETRY_PERIOD, timestamp] starts no earlier than the
\* previous window ended, and strictly later whenever the previous cycle's
\* processing took positive time.
C18_PositiveTimeLeavesGap ==
    (pc = "get_api_answer" /\ prev_timestamp # -1) =>
        /\ timestamp - 600 >= prev_timestamp
        /\ (busy > 0 => timestamp - 600 > prev_timestamp)

\* C18 (amended): at the start of every cycle after the first, the window
\* starts no earlier than the previous window ended; the distance between
\* the two is the previous cycle's processing time in whole seconds, rounded
\* down or up, so it is positive when that time was a second or more and
\* can be zero when it was less.
C18_WindowsDoNotOverlap ==
    (pc = "get_api_answer" /\ prev_timestamp # -1) =>
        /\ timestamp - 600 >= prev_timestamp
        /\ timestamp - 600 - prev_timestamp \in {busy \div 2, (busy + 1) \div 2}
        /\ (busy >= 2 => timestamp - 600 > prev_timestamp)

\* C18 witness: the first cycle took half a second, and the second window
\* starts at the second the first one ended at.
C18_Witness ==
    /\ cycle = 2
    /\ pc = "get_api_answer"
    /\ prev_timestamp = 0
    /\ busy = 1
    /\ now = 1201
    /\ timestamp = 600

====
